---- MODULE Spec2Model ----
(***************************************************************************)
(* EVENTOS (app.py): a Flask page that browses a well-intervention log.    *)
(* build_index() scans every CSV of the data directory in chunks and       *)
(* builds a light in-memory index, cached in the module global _INDEX_DF;  *)
(* index() lists the events of a well and load_event_detail() re-reads the *)
(* files of one index row to show its steps.                               *)
(*                                                                         *)
(* Text cells are strings; an empty cell is read by pandas as NaN and is   *)
(* the empty string here.  A date cell is the text "2024-03-DD" (the tuple *)
(* <<DD>>) or "2024-03-DD HH:00" (the tuple <<DD, HH>>); a step_no cell is *)
(* its sequence of decimal digits.  The empty tuple is the empty cell.     *)
(*                                                                         *)
(* Every file has all the columns of WANTED_COLS, and a date column holds  *)
(* one date format, so that a cell parses the same in any chunk.           *)
(***************************************************************************)
EXTENDS Integers, Sequences, FiniteSets, TLC

VARIABLES
    files,          \* the data directory in glob order: [name, readable, rows]
    chunksize,      \* rows per chunk of pd.read_csv
    workers,        \* the server threads that handle requests
    INDEX_DF,       \* the module global _INDEX_DF: [set, df]
    pc,             \* per thread: where its request handler stands
    rows,           \* per thread: build_index's local list of chunk summaries
    pos,            \* per thread: [f, off], the next chunk build_index reads
    index_df,       \* per thread: index()'s local index_df
    pozo_sel,       \* per thread: request.args "well"
    evento_sel,     \* per thread: request.args "event" (<<>> when absent)
    eventos_df,     \* per thread: the sorted events of pozo_sel
    tabla_evento,   \* per thread: [loaded, rows], the detail table
    raised,         \* per thread: the exception that ended the request
    scans           \* how many times a scan of the partitions was begun

vars == <<files, chunksize, workers, INDEX_DF, pc, rows, pos, index_df,
          pozo_sel, evento_sel, eventos_df, tabla_evento, raised, scans>>

-----------------------------------------------------------------------------
(* Bounds of the model *)

MaxFiles == 2
MaxRecords == 3
MaxScans == 2
NumThreads == 2

Threads == 1..NumThreads

-----------------------------------------------------------------------------
(* Values *)

\* an empty CSV cell, which pd.read_csv(dtype=str) yields as NaN
NaN == ""

\* what pd.to_datetime(errors="coerce") yields for a cell it cannot parse
NaT == 0

HoursPerDay == 24

\* Python's order on the strings in use (ASCII: digits < capitals < lower case)
Lexicon == <<"", "42", "57", "DRILL", "E1", "E2", "W-1", "W-2", "WORKOVER",
             "a.csv", "b.csv", "c.csv", "d.csv">>

StrOrd(s) == CHOOSE i \in DOMAIN Lexicon : Lexicon[i] = s

StrLess(a, b) == StrOrd(a) < StrOrd(b)

\* pd.to_datetime(col, errors="coerce") on one cell: hours since 2024-03-00
ToDatetime(text) ==
    IF Len(text) = 1 /\ text[1] \in 1..31
    THEN text[1] * HoursPerDay
    ELSE IF Len(text) = 2 /\ text[1] \in 1..31 /\ text[2] \in 0..(HoursPerDay - 1)
         THEN text[1] * HoursPerDay + text[2]
         ELSE NaT

\* Timestamp.date()
DateOf(ts) == ts \div HoursPerDay

-----------------------------------------------------------------------------
(* build_index: the summary of one chunk and the final index *)

\* the chunks pd.read_csv(chunksize=n) yields for one file; every row keeps
\* the file and the row number it was read from
RECURSIVE ReadCsv(_, _, _)
ReadCsv(f, off, n) ==
    LET last  == IF off + n < Len(f.rows) THEN off + n ELSE Len(f.rows)
        chunk == [i \in 1..(last - off) |->
                    [cells |-> f.rows[off + i], file |-> f.name, line |-> off + i]]
    IN  IF last = Len(f.rows) THEN <<chunk>>
        ELSE <<chunk>> \o ReadCsv(f, last, n)

\* the date parsing of one chunk row (lines 78-80)
ParseDates(r) ==
    [r EXCEPT !.date_ops_start = ToDatetime(@), !.date_ops_end = ToDatetime(@)]

\* the group key of a row whose dates are parsed
KeyOf(r) ==
    <<r.well_legal_name, r.event_objective_1, r.event_code, r.date_ops_start>>

\* groupby drops a row with a missing key cell (dropna=True, the default)
HasKey(r) ==
    /\ r.well_legal_name # NaN
    /\ r.event_objective_1 # NaN
    /\ r.event_code # NaN
    /\ r.date_ops_start # NaT

\* groupby sorts the groups by key (sort=True, the default)
KeyLess(a, b) ==
    \/ StrLess(a[1], b[1])
    \/ a[1] = b[1] /\ StrLess(a[2], b[2])
    \/ a[1] = b[1] /\ a[2] = b[2] /\ StrLess(a[3], b[3])
    \/ a[1] = b[1] /\ a[2] = b[2] /\ a[3] = b[3] /\ a[4] < b[4]

RECURSIVE SortKeys(_)
SortKeys(S) ==
    IF S = {} THEN <<>>
    ELSE LET m == CHOOSE k \in S : \A j \in S \ {k} : KeyLess(k, j)
         IN  <<m>> \o SortKeys(S \ {m})

\* the rows of one group, in their order in the frame
GroupOf(frame, k) == SelectSeq(frame, LAMBDA r : HasKey(r) /\ KeyOf(r) = k)

\* MaxTs with a missing value taken for the result (skipna=False)
RECURSIVE MaxTsKeepsNaT(_)
MaxTsKeepsNaT(col) ==
    IF col = <<>> THEN NaT
    ELSE IF Len(col) = 1 THEN Head(col)
    ELSE LET rest == MaxTsKeepsNaT(Tail(col))
         IN  IF Head(col) = NaT \/ rest = NaT THEN NaT
             ELSE IF Head(col) > rest THEN Head(col) ELSE rest

\* the aggregation "max" of a datetime column: NaT is skipped
RECURSIVE MaxTs(_)
MaxTs(col) ==
    IF col = <<>> THEN NaT
    ELSE LET rest == MaxTs(Tail(col))
         IN  IF Head(col) = NaT THEN rest
             ELSE IF rest = NaT \/ Head(col) > rest THEN Head(col) ELSE rest

\* First with the first cell taken as it is, present or missing
FirstCell(col) == IF col = <<>> THEN NaN ELSE Head(col)

\* the aggregation "first" of a text column: NaN is skipped
RECURSIVE First(_)
First(col) ==
    IF col = <<>> THEN NaN
    ELSE IF Head(col) # NaN THEN Head(col) ELSE First(Tail(col))

Column(frame, c) == [i \in DOMAIN frame |-> frame[i][c]]

\* chunk.groupby(grp_cols).agg(**agg_dict).reset_index(), plus the filename
Resumen(chunk, fname) ==
    LET parsed == [i \in DOMAIN chunk |-> ParseDates(chunk[i].cells)]
        keys   == SortKeys({KeyOf(parsed[i]) :
                              i \in {j \in DOMAIN parsed : HasKey(parsed[j])}})
    IN  [j \in DOMAIN keys |->
           LET g == GroupOf(parsed, keys[j])
           IN  [well_legal_name   |-> keys[j][1],
                event_objective_1 |-> keys[j][2],
                event_code        |-> keys[j][3],
                date_ops_start    |-> keys[j][4],
                date_ops_end      |-> MaxTs(Column(g, "date_ops_end")),
                event_id          |-> First(Column(g, "event_id")),
                filename          |-> fname]]

\* pd.concat(rows, ignore_index=True)
RECURSIVE Concat(_)
Concat(frames) ==
    IF frames = <<>> THEN <<>> ELSE Head(frames) \o Concat(Tail(frames))

RECURSIVE SortNames(_)
SortNames(S) ==
    IF S = {} THEN <<>>
    ELSE LET m == CHOOSE n \in S : \A o \in S \ {n} : StrLess(n, o)
         IN  <<m>> \o SortNames(S \ {m})

\* collect_files without the sort: each name once, in order of appearance
RECURSIVE collect_files_unsorted(_)
collect_files_unsorted(series) ==
    IF series = <<>> THEN <<>>
    ELSE LET before == collect_files_unsorted(SubSeq(series, 1, Len(series) - 1))
             name   == series[Len(series)]
         IN  IF name = NaN \/ \E i \in DOMAIN before : before[i] = name
             THEN before ELSE Append(before, name)

\* sorted(set(series.dropna().tolist()))
collect_files(series) ==
    SortNames({series[i] : i \in {j \in DOMAIN series : series[j] # NaN}})

\* idx.groupby(group_cols).agg(**agg_final).reset_index(), plus idx_id
\* (lines 127-130 parse again two columns that hold timestamps already)
IndexOf(idx) ==
    LET keys == SortKeys({KeyOf(idx[i]) : i \in DOMAIN idx})
    IN  [j \in DOMAIN keys |->
           LET g == GroupOf(idx, keys[j])
           IN  [well_legal_name   |-> keys[j][1],
                event_objective_1 |-> keys[j][2],
                event_code        |-> keys[j][3],
                date_ops_start    |-> keys[j][4],
                date_ops_end      |-> MaxTs(Column(g, "date_ops_end")),
                filename          |-> collect_files(Column(g, "filename")),
                event_id          |-> First(Column(g, "event_id")),
                idx_id            |-> j - 1]]

-----------------------------------------------------------------------------
(* load_event_detail *)

\* Python's None, passed for an absent objective or code
None == "<None>"

\* series == value, which is False on a NaN cell
CellEq(cell, value) == cell # NaN /\ cell = value

\* Mask with date_ops_start compared to the hour instead of to the day
MaskExactStart(r, well, event_objective_1, event_code, date_start) ==
    /\ CellEq(r.cells.well_legal_name, well)
    /\ event_objective_1 # None
          => CellEq(r.cells.event_objective_1, event_objective_1)
    /\ event_code # None => CellEq(r.cells.event_code, event_code)
    /\ date_start # NaT => ToDatetime(r.cells.date_ops_start) = date_start

\* the mask of lines 190-203 on one row
Mask(r, well, event_objective_1, event_code, date_start) ==
    /\ CellEq(r.cells.well_legal_name, well)
    /\ event_objective_1 # None
          => CellEq(r.cells.event_objective_1, event_objective_1)
    /\ event_code # None => CellEq(r.cells.event_code, event_code)
    /\ date_start # NaT
          => /\ ToDatetime(r.cells.date_ops_start) # NaT
             /\ DateOf(ToDatetime(r.cells.date_ops_start)) = DateOf(date_start)

\* the parsing of lines 218-220 on one kept row
ParseDetail(r) ==
    [r EXCEPT !.cells.time_from = ToDatetime(@),
              !.cells.date_ops_start = ToDatetime(@),
              !.cells.date_ops_end = ToDatetime(@)]

\* Python's order on two digit strings (step_no is read with dtype=str)
RECURSIVE StrDigitsLess(_, _)
StrDigitsLess(a, b) ==
    IF b = <<>> THEN FALSE
    ELSE IF a = <<>> THEN TRUE
    ELSE IF Head(a) # Head(b) THEN Head(a) < Head(b)
    ELSE StrDigitsLess(Tail(a), Tail(b))

\* the order of one sort column with the missing values last
TsBefore(a, b) == a # NaT /\ (b = NaT \/ a < b)
StepBefore(a, b) == a # <<>> /\ (b = <<>> \/ StrDigitsLess(a, b))

\* df.sort_values(["time_from", "step_no"]): row a goes strictly before row b
DetailBefore(a, b) ==
    \/ TsBefore(a.cells.time_from, b.cells.time_from)
    \/ /\ a.cells.time_from = b.cells.time_from
       /\ StepBefore(a.cells.step_no, b.cells.step_no)

\* the sort of several columns is a stable one: equal rows keep their order
RECURSIVE InsertRow(_, _)
InsertRow(sorted, r) ==
    IF sorted = <<>> THEN <<r>>
    ELSE IF DetailBefore(r, sorted[Len(sorted)])
         THEN Append(InsertRow(SubSeq(sorted, 1, Len(sorted) - 1), r),
                     sorted[Len(sorted)])
         ELSE Append(sorted, r)

RECURSIVE SortDetail(_)
SortDetail(df) ==
    IF df = <<>> THEN <<>>
    ELSE InsertRow(SortDetail(SubSeq(df, 1, Len(df) - 1)), df[Len(df)])

\* the kept rows of the chunks of one file, in reading order
RECURSIVE KeptOfChunks(_, _, _, _, _)
KeptOfChunks(chunks, well, event_objective_1, event_code, date_start) ==
    IF chunks = <<>> THEN <<>>
    ELSE SelectSeq(Head(chunks),
                   LAMBDA r : Mask(r, well, event_objective_1, event_code,
                                   date_start))
         \o KeptOfChunks(Tail(chunks), well, event_objective_1, event_code,
                         date_start)

\* the loop over the filenames: a name with no file is skipped
RECURSIVE KeptOfFiles(_, _, _, _, _, _, _)
KeptOfFiles(dir, filenames, n, well, event_objective_1, event_code, date_start) ==
    IF filenames = <<>> THEN <<>>
    ELSE LET here == {i \in DOMAIN dir : dir[i].name = Head(filenames)}
             kept == IF here = {} THEN <<>>
                     ELSE KeptOfChunks(ReadCsv(dir[CHOOSE i \in here : TRUE], 0, n),
                                       well, event_objective_1, event_code,
                                       date_start)
         IN  kept \o KeptOfFiles(dir, Tail(filenames), n, well,
                                 event_objective_1, event_code, date_start)

load_event_detail(dir, n, well, event_objective_1, event_code, date_start, filenames) ==
    LET df == KeptOfFiles(dir, filenames, n, well, event_objective_1, event_code,
                          date_start)
    IN  SortDetail([i \in DOMAIN df |-> ParseDetail(df[i])])

-----------------------------------------------------------------------------
(* index(): the events of a well *)

\* EndNotAfter with ascending=True
EndNotBefore(a, b) ==
    \/ b.date_ops_end = NaT
    \/ a.date_ops_end # NaT /\ a.date_ops_end <= b.date_ops_end

\* sort_values("date_ops_end", ascending=False, na_position="last"):
\* entry a may stand before entry b
EndNotAfter(a, b) ==
    \/ b.date_ops_end = NaT
    \/ a.date_ops_end # NaT /\ a.date_ops_end >= b.date_ops_end

Orderings(n) ==
    {p \in [1..n -> 1..n] : \A i, j \in 1..n : p[i] = p[j] => i = j}

\* the orders the default sort (kind="quicksort", which is not a stable sort)
\* can leave the frame in
SortValuesDesc(df) ==
    {s \in {[i \in DOMAIN df |-> df[p[i]]] : p \in Orderings(Len(df))} :
        \A i \in 1..(Len(s) - 1) : EndNotAfter(s[i], s[i + 1])}

\* index_df[index_df["well_legal_name"] == pozo_sel]
EventsOfWell(df, well) ==
    SelectSeq(df, LAMBDA e : CellEq(e.well_legal_name, well))

-----------------------------------------------------------------------------
(* The request handler index(), one thread per request in flight *)

NoTable == [loaded |-> FALSE, rows |-> <<>>]

\* build_index, lines 49-57: the cached index, or the start of a scan
\* (the count of the scans is kept up to MaxScans)
BuildIndex(t) ==
    /\ t \in workers
    /\ pc[t] = "idle"
    /\ INDEX_DF.set \/ scans < MaxScans
    /\ IF INDEX_DF.set
       THEN /\ index_df' = [index_df EXCEPT ![t] = INDEX_DF.df]
            /\ pc' = [pc EXCEPT ![t] = "list"]
            /\ UNCHANGED <<pos, raised, scans>>
       ELSE IF files = <<>>
       THEN /\ raised' = [raised EXCEPT ![t] = "FileNotFoundError"]
            /\ pc' = [pc EXCEPT ![t] = "error"]
            /\ UNCHANGED <<pos, index_df, scans>>
       ELSE /\ pos' = [pos EXCEPT ![t] = [f |-> 1, c |-> 1]]
            /\ pc' = [pc EXCEPT ![t] = "scan"]
            /\ scans' = scans + 1
            /\ UNCHANGED <<index_df, raised>>
    /\ UNCHANGED <<files, chunksize, workers, INDEX_DF, rows, pozo_sel,
                   evento_sel, eventos_df, tabla_evento>>

\* build_index, lines 59-102: one turn of the loop over the chunks of a file
ScanChunk(t) ==
    /\ pc[t] = "scan"
    /\ LET f == files[pos[t].f]
       IN  IF ~f.readable
           THEN /\ raised' = [raised EXCEPT ![t] = "ReadError"]
                /\ pc' = [pc EXCEPT ![t] = "error"]
                /\ rows' = [rows EXCEPT ![t] = <<>>]
                /\ pos' = [pos EXCEPT ![t] = [f |-> 0, c |-> 0]]
           ELSE LET chunks  == ReadCsv(f, 0, chunksize)
                    resumen == Resumen(chunks[pos[t].c], f.name)
                IN  /\ rows' = [rows EXCEPT ![t] =
                                  IF resumen = <<>> THEN @ ELSE Append(@, resumen)]
                    /\ IF pos[t].c < Len(chunks)
                       THEN /\ pos' = [pos EXCEPT ![t].c = @ + 1]
                            /\ pc' = pc
                       ELSE IF pos[t].f < Len(files)
                       THEN /\ pos' = [pos EXCEPT ![t] = [f |-> @.f + 1, c |-> 1]]
                            /\ pc' = pc
                       ELSE /\ pos' = [pos EXCEPT ![t] = [f |-> 0, c |-> 0]]
                            /\ pc' = [pc EXCEPT ![t] = "finish"]
                    /\ raised' = raised
    /\ UNCHANGED <<files, chunksize, workers, INDEX_DF, index_df, pozo_sel,
                   evento_sel, eventos_df, tabla_evento, scans>>

\* BuildFinish without the test of line 104: an empty index is stored
BuildFinishUnguarded(t) ==
    /\ pc[t] = "finish"
    /\ LET df == IndexOf(Concat(rows[t]))
       IN  /\ INDEX_DF' = [set |-> TRUE, df |-> df]
           /\ index_df' = [index_df EXCEPT ![t] = df]
           /\ pc' = [pc EXCEPT ![t] = "list"]
    /\ rows' = [rows EXCEPT ![t] = <<>>]
    /\ UNCHANGED <<files, chunksize, workers, pos, pozo_sel, evento_sel,
                   eventos_df, tabla_evento, raised, scans>>

\* build_index, lines 104-138: the final grouping and the store in _INDEX_DF
BuildFinish(t) ==
    /\ pc[t] = "finish"
    /\ IF rows[t] = <<>>
       THEN /\ raised' = [raised EXCEPT ![t] = "RuntimeError"]
            /\ pc' = [pc EXCEPT ![t] = "error"]
            /\ UNCHANGED <<INDEX_DF, index_df>>
       ELSE LET df == IndexOf(Concat(rows[t]))
            IN  /\ INDEX_DF' = [set |-> TRUE, df |-> df]
                /\ index_df' = [index_df EXCEPT ![t] = df]
                /\ pc' = [pc EXCEPT ![t] = "list"]
                /\ raised' = raised
    /\ rows' = [rows EXCEPT ![t] = <<>>]
    /\ UNCHANGED <<files, chunksize, workers, pos, pozo_sel, evento_sel,
                   eventos_df, tabla_evento, scans>>

\* the wells a request can name
Wells == {"W-1", "W-2"}

\* index, lines 239-275: the events of the selected well
ListEvents(t) ==
    /\ pc[t] = "list"
    /\ \E well \in Wells \cup {NaN} :
         /\ pozo_sel' = [pozo_sel EXCEPT ![t] = well]
         /\ IF well = NaN
            THEN /\ eventos_df' = eventos_df
                 /\ pc' = [pc EXCEPT ![t] = "render"]
            ELSE /\ \E sorted \in SortValuesDesc(EventsOfWell(index_df[t], well)) :
                      eventos_df' = [eventos_df EXCEPT ![t] = sorted]
                 /\ pc' = [pc EXCEPT ![t] = "detail"]
    /\ UNCHANGED <<files, chunksize, workers, INDEX_DF, rows, pos, index_df,
                   evento_sel, tabla_evento, raised, scans>>

\* index, lines 278-319: the detail of the selected event, loaded on demand
LoadDetail(t) ==
    /\ pc[t] = "detail"
    /\ \E sel \in {<<>>} \cup {<<i>> : i \in 0..Len(index_df[t])} :
         LET fila_evt == SelectSeq(eventos_df[t], LAMBDA e : <<e.idx_id>> = sel)
         IN  /\ evento_sel' = [evento_sel EXCEPT ![t] = sel]
             /\ tabla_evento' = [tabla_evento EXCEPT ![t] =
                   IF sel = <<>> \/ fila_evt = <<>> THEN @
                   ELSE [loaded |-> TRUE,
                         rows   |-> load_event_detail(files, chunksize, pozo_sel[t],
                                       fila_evt[1].event_objective_1,
                                       fila_evt[1].event_code,
                                       fila_evt[1].date_ops_start,
                                       fila_evt[1].filename)]]
    /\ pc' = [pc EXCEPT ![t] = "render"]
    /\ UNCHANGED <<files, chunksize, workers, INDEX_DF, rows, pos, index_df,
                   pozo_sel, eventos_df, raised, scans>>

\* index, lines 321-329: the page is rendered (or the exception answered) and
\* the handler's locals are gone
Respond(t) ==
    /\ pc[t] \in {"render", "error"}
    /\ pc' = [pc EXCEPT ![t] = "idle"]
    /\ index_df' = [index_df EXCEPT ![t] = <<>>]
    /\ pozo_sel' = [pozo_sel EXCEPT ![t] = NaN]
    /\ evento_sel' = [evento_sel EXCEPT ![t] = <<>>]
    /\ eventos_df' = [eventos_df EXCEPT ![t] = <<>>]
    /\ tabla_evento' = [tabla_evento EXCEPT ![t] = NoTable]
    /\ raised' = [raised EXCEPT ![t] = "none"]
    /\ UNCHANGED <<files, chunksize, workers, INDEX_DF, rows, pos, scans>>

Next ==
    \E t \in Threads :
        \/ BuildIndex(t)
        \/ ScanChunk(t)
        \/ BuildFinish(t)
        \/ ListEvents(t)
        \/ LoadDetail(t)
        \/ Respond(t)

-----------------------------------------------------------------------------
(* The data directory and the initial state *)

FileNames == <<"a.csv", "b.csv", "c.csv", "d.csv">>

\* the rows of the log, each cell drawn from the given values
Records(wells, objectives, codes, starts, ends, ids, times, steps) ==
    [well_legal_name : wells, event_objective_1 : objectives,
     event_code : codes, date_ops_start : starts, date_ops_end : ends,
     event_id : ids, time_from : times, step_no : steps]

SeqsUpTo(S, n) == UNION {[1..k -> S] : k \in 0..n}

\* the k files holding the rows of log, cut after cuts[1], cuts[2], ...;
\* a file that cannot be read yields no row
Directory(log, cuts, names, readable) ==
    [i \in DOMAIN names |->
        [name     |-> FileNames[names[i]],
         readable |-> readable[i],
         rows     |-> IF readable[i]
                      THEN SubSeq(log, (IF i = 1 THEN 0 ELSE cuts[i - 1]) + 1,
                                  IF i = Len(names) THEN Len(log) ELSE cuts[i])
                      ELSE <<>>]]

\* where a log of n rows can be cut into m + 1 files
Cuts(n, m) ==
    {c \in [1..m -> 0..n] : \A i \in 1..(m - 1) : c[i] <= c[i + 1]}

\* the order in which glob yields k files: any when anyOrder, by name otherwise
GlobOrders(k, anyOrder) ==
    {n \in [1..k -> 1..k] :
        \A i, j \in 1..k : i < j => IF anyOrder THEN n[i] # n[j] ELSE n[i] < n[j]}

\* every directory of at most MaxFiles files and MaxRecords rows of pool
Directories(pool, flags, anyOrder) ==
    {<<>>} \cup
    UNION {{Directory(log, cuts, names, readable) :
               cuts \in Cuts(Len(log), k - 1),
               names \in GlobOrders(k, anyOrder),
               readable \in [1..k -> flags]} :
           log \in SeqsUpTo(pool, MaxRecords), k \in 1..MaxFiles}

InitWith(dirs, sizes, threads) ==
    /\ files \in dirs
    /\ chunksize \in sizes
    /\ workers = threads
    /\ INDEX_DF = [set |-> FALSE, df |-> <<>>]
    /\ pc = [t \in Threads |-> "idle"]
    /\ rows = [t \in Threads |-> <<>>]
    /\ pos = [t \in Threads |-> [f |-> 0, c |-> 0]]
    /\ index_df = [t \in Threads |-> <<>>]
    /\ pozo_sel = [t \in Threads |-> NaN]
    /\ evento_sel = [t \in Threads |-> <<>>]
    /\ eventos_df = [t \in Threads |-> <<>>]
    /\ tabla_evento = [t \in Threads |-> NoTable]
    /\ raised = [t \in Threads |-> "none"]
    /\ scans = 0

\* the log row the pools vary
BaseWell == "W-1"
BaseObjective == "WORKOVER"
BaseCode == "42"

KeyPool ==
    Records({BaseWell}, {BaseObjective}, {BaseCode}, {<<1, 8>>, <<1, 14>>, <<0>>},
            {<<2>>}, {"E1"}, {<<1, 8>>}, {<<1>>})

\* one row per chunk, or chunks that hold a whole file (the default, 50000)
ChunkSizes == {1, MaxRecords}

Init == InitWith(Directories(KeyPool, {TRUE, FALSE}, FALSE), ChunkSizes, {1})

Spec == Init /\ [][Next]_vars

\* two requests in flight at once on a threaded server
StartPool ==
    Records({BaseWell}, {BaseObjective}, {BaseCode}, {<<1, 8>>, <<0>>},
            {<<2>>}, {"E1"}, {<<1, 8>>}, {<<1>>})

InitThreaded ==
    InitWith(Directories(StartPool, {TRUE}, FALSE), {MaxRecords}, Threads)

SpecThreaded == InitThreaded /\ [][Next]_vars

\* the same event seen with and without an event_id
EventIdPool ==
    Records({BaseWell}, {BaseObjective}, {BaseCode}, {<<1, 8>>},
            {<<2>>}, {NaN, "E1", "E2"}, {<<1, 8>>}, {<<1>>})
    \cup Records({BaseWell}, {BaseObjective}, {BaseCode}, {<<1, 14>>},
                 {<<2>>}, {"E2"}, {<<1, 8>>}, {<<1>>})

InitEventId ==
    InitWith(Directories(EventIdPool, {TRUE}, FALSE), 1..MaxRecords, {1})

SpecEventId == InitEventId /\ [][Next]_vars

\* the same event seen with several end dates, or with none
EndPool ==
    Records({BaseWell}, {BaseObjective}, {BaseCode}, {<<1, 8>>},
            {<<>>, <<3>>, <<5>>}, {"E1"}, {<<1, 8>>}, {<<1>>})
    \cup Records({BaseWell}, {BaseObjective}, {BaseCode}, {<<1, 14>>},
                 {<<0>>}, {"E1"}, {<<1, 8>>}, {<<1>>})

InitDates ==
    InitWith(Directories(EndPool, {TRUE}, FALSE), 1..MaxRecords, {1})

SpecDates == InitDates /\ [][Next]_vars

\* two events spread over the files, which glob yields in any order
SpreadPool ==
    Records({BaseWell}, {BaseObjective}, {BaseCode}, {<<1, 8>>, <<2, 8>>},
            {<<2>>}, {"E1"}, {<<1, 8>>}, {<<1>>})

InitLocators ==
    InitWith(Directories(SpreadPool, {TRUE}, TRUE), 1..MaxRecords, {1})

SpecLocators == InitLocators /\ [][Next]_vars

\* rows that differ from one event in their well, their objective, their
\* code, their time of day or their day
DetailPool ==
    Records({BaseWell, "W-2"}, {BaseObjective}, {BaseCode}, {<<1, 8>>},
            {<<2>>}, {"E1"}, {<<1, 8>>}, {<<1>>})
    \cup Records({BaseWell}, {"DRILL"}, {BaseCode}, {<<1, 8>>},
                 {<<2>>}, {"E1"}, {<<1, 8>>}, {<<1>>})
    \cup Records({BaseWell}, {BaseObjective}, {"57"}, {<<1, 8>>},
                 {<<2>>}, {"E1"}, {<<1, 8>>}, {<<1>>})
    \cup Records({BaseWell}, {BaseObjective}, {BaseCode}, {<<1, 14>>, <<2, 8>>},
                 {<<2>>}, {"E1"}, {<<1, 8>>}, {<<1>>})

\* (a chunk holds a whole file, as with the default chunksize)
InitDetail ==
    InitWith(Directories(DetailPool, {TRUE}, FALSE), {MaxRecords}, {1})

SpecDetail == InitDetail /\ [][Next]_vars

\* the steps of one event, with their start times and step numbers
StepPool ==
    Records({BaseWell}, {BaseObjective}, {BaseCode}, {<<1, 8>>},
            {<<2>>}, {"E1"}, {<<>>, <<1, 8>>, <<1, 9>>}, {<<>>, <<2>>, <<1, 0>>})

InitSteps ==
    InitWith(Directories(StepPool, {TRUE}, FALSE), ChunkSizes, {1})

SpecSteps == InitSteps /\ [][Next]_vars

\* three events of one well and one of another, with equal, different and
\* missing end dates
ListPool ==
    Records({BaseWell}, {BaseObjective}, {BaseCode}, {<<1, 8>>},
            {<<3>>, <<5>>}, {"E1"}, {<<1, 8>>}, {<<1>>})
    \cup Records({BaseWell}, {BaseObjective}, {BaseCode}, {<<1, 14>>},
                 {<<>>, <<3>>}, {"E1"}, {<<1, 8>>}, {<<1>>})
    \cup Records({BaseWell, "W-2"}, {BaseObjective}, {BaseCode}, {<<2, 8>>},
                 {<<3>>}, {"E1"}, {<<1, 8>>}, {<<1>>})

InitList ==
    InitWith(Directories(ListPool, {TRUE}, FALSE), {MaxRecords}, {1})

SpecList == InitList /\ [][Next]_vars

-----------------------------------------------------------------------------
(* What the log holds, read row by row in glob order *)

RowsOfFile(f) ==
    [i \in DOMAIN f.rows |-> [cells |-> f.rows[i], file |-> f.name, line |-> i]]

LogRows == Concat([i \in DOMAIN files |-> RowsOfFile(files[i])])

\* a log row has all four components of its key
Complete(r) ==
    /\ r.cells.well_legal_name # ""
    /\ r.cells.event_objective_1 # ""
    /\ r.cells.event_code # ""
    /\ ToDatetime(r.cells.date_ops_start) # NaT

\* the key of an index entry and of a log row, to the hour and to the day
EntryKey(e) ==
    <<e.well_legal_name, e.event_objective_1, e.event_code, e.date_ops_start>>

RowKey(r) ==
    <<r.cells.well_legal_name, r.cells.event_objective_1, r.cells.event_code,
      ToDatetime(r.cells.date_ops_start)>>

DayKey(k) == <<k[1], k[2], k[3], DateOf(k[4])>>

\* the log rows grouped into index entry e, in enumeration order
Contributing(e) ==
    SelectSeq(LogRows, LAMBDA r : Complete(r) /\ RowKey(r) = EntryKey(e))

SomeCompleteRow == \E i \in DOMAIN LogRows : Complete(LogRows[i])

-----------------------------------------------------------------------------
(* Claims on the outcome of a build, under Spec *)

\* C1: after a successful build the index holds exactly one entry per
\* distinct (well, objective, code, calendar day of date_ops_start) among the
\* rows whose four key components are present: rows of the same day share
\* an entry whatever their time of day.
C1_OneEntryPerDayKey ==
    INDEX_DF.set =>
        LET dayKeys == {DayKey(RowKey(LogRows[i])) :
                          i \in {j \in DOMAIN LogRows : Complete(LogRows[j])}}
            df      == INDEX_DF.df
        IN  /\ \A k \in dayKeys :
                  Cardinality({i \in DOMAIN df : DayKey(EntryKey(df[i])) = k}) = 1
            /\ \A i \in DOMAIN df : DayKey(EntryKey(df[i])) \in dayKeys

\* C9: when no row of any partition has a complete key, build_index never
\* returns an index: the request ends in an error, _INDEX_DF stays unset and
\* no handler ever holds an index, whole or partial.
C9_EmptySourceFails ==
    ~SomeCompleteRow =>
        /\ ~INDEX_DF.set
        /\ INDEX_DF.df = <<>>
        /\ \A t \in Threads :
              /\ pc[t] \in {"idle", "scan", "finish", "error"}
              /\ index_df[t] = <<>>
              /\ pc[t] = "error" =>
                    raised[t] \in {"FileNotFoundError", "ReadError", "RuntimeError"}

\* a scan of readable partitions with no complete key has ended in the
\* RuntimeError of line 105, after a scan of more than one chunk
C9_Witness ==
    /\ ~SomeCompleteRow
    /\ Len(LogRows) >= 2
    /\ pc[1] = "error"
    /\ raised[1] = "RuntimeError"
    /\ ~INDEX_DF.set

\* C10: a partition that cannot be read is skipped and the build goes on:
\* over a directory where some readable partition holds a complete key, no
\* build ends in an error, and the index a build returns has an entry for
\* every complete key of the readable partitions.
C10_UnreadableSkipped ==
    LET keys == {RowKey(LogRows[i]) :
                   i \in {j \in DOMAIN LogRows : Complete(LogRows[j])}}
    IN  \A t \in Threads :
           /\ keys # {} => pc[t] # "error"
           /\ pc[t] \in {"list", "detail", "render"} =>
                 keys \subseteq {EntryKey(index_df[t][i]) : i \in DOMAIN index_df[t]}

-----------------------------------------------------------------------------
(* The build-once cache, under SpecThreaded *)

\* C2: whatever the order and the interleaving of the calls of build_index,
\* the partitions are scanned at most once in the life of the process.
C2_ScanAtMostOnce == scans <= 1

-----------------------------------------------------------------------------
(* The aggregates of an index entry *)

\* the first row of a sequence that satisfies P, as a set of at most one index
Earliest(s, P(_)) ==
    {i \in DOMAIN s : P(s[i]) /\ \A j \in 1..(i - 1) : ~P(s[j])}

\* C3 as stated: the event_id of an index entry is the event_id of the
\* earliest-enumerated row that shares its key, present or missing.
C3_EventIdOfEarliestRow ==
    INDEX_DF.set =>
        \A i \in DOMAIN INDEX_DF.df :
            LET e == INDEX_DF.df[i]
            IN  e.event_id = Contributing(e)[1].cells.event_id

\* C3 as amended: the event_id of an index entry is the first event_id that
\* is present among the rows grouped into the entry, in enumeration order
\* (partition order, then row order); it is missing when all are missing.
C3_EventIdOfEarliestPresent ==
    INDEX_DF.set =>
        \A i \in DOMAIN INDEX_DF.df :
            LET e     == INDEX_DF.df[i]
                rs    == Contributing(e)
                first == Earliest(rs, LAMBDA r : r.cells.event_id # "")
            IN  /\ rs # <<>>
                /\ first = {} => e.event_id = ""
                /\ \A j \in first : e.event_id = rs[j].cells.event_id

\* an entry built from rows of two chunks whose earliest row has no event_id
\* and whose later rows have two different ones
C3_Witness ==
    /\ INDEX_DF.set
    /\ \E i \in DOMAIN INDEX_DF.df :
          LET rs == Contributing(INDEX_DF.df[i])
          IN  /\ Len(rs) = 3
              /\ rs[1].cells.event_id = ""
              /\ rs[2].cells.event_id # ""
              /\ rs[3].cells.event_id \notin {"", rs[2].cells.event_id}
              /\ INDEX_DF.df[i].event_id = rs[2].cells.event_id
              /\ chunksize < Len(rs)

-----------------------------------------------------------------------------
(* The detail of an event, under SpecDetail and SpecSteps *)

\* the index entry a handler has selected
Selected(t) ==
    LET i == CHOOSE j \in DOMAIN index_df[t] : <<index_df[t][j].idx_id>> = evento_sel[t]
    IN  index_df[t][i]

Shown(t) == pc[t] = "render" /\ tabla_evento[t].loaded

\* C6: the detail of an index entry holds exactly the rows of the entry's
\* files whose well is the entry's, whose objective and code are the entry's
\* (each compared when the entry has one) and whose date_ops_start falls on
\* the calendar day of the entry's: none else, none missing, none twice.
C6_DetailExact ==
    \A t \in Threads :
        Shown(t) =>
            LET e     == Selected(t)
                got   == tabla_evento[t].rows
                want  == {r \in {LogRows[i] : i \in DOMAIN LogRows} :
                            /\ \E j \in DOMAIN e.filename : e.filename[j] = r.file
                            /\ r.cells.well_legal_name = e.well_legal_name
                            /\ e.event_objective_1 # "" =>
                                  r.cells.event_objective_1 = e.event_objective_1
                            /\ e.event_code # "" => r.cells.event_code = e.event_code
                            /\ ToDatetime(r.cells.date_ops_start) # NaT
                            /\ DateOf(ToDatetime(r.cells.date_ops_start))
                                  = DateOf(e.date_ops_start)}
            IN  /\ e.well_legal_name = pozo_sel[t]
                /\ {<<got[i].file, got[i].line>> : i \in DOMAIN got}
                      = {<<r.file, r.line>> : r \in want}
                /\ Len(got) = Cardinality(want)

\* the detail shows two rows of the same day and different times of day,
\* and leaves out a row of one of the entry's files
C6_Witness ==
    /\ Shown(1)
    /\ Len(tabla_evento[1].rows) = 2
    /\ tabla_evento[1].rows[1].cells.date_ops_start
          # tabla_evento[1].rows[2].cells.date_ops_start
    /\ \E i \in DOMAIN LogRows :
          /\ \E j \in DOMAIN Selected(1).filename :
                Selected(1).filename[j] = LogRows[i].file
          /\ \A j \in DOMAIN tabla_evento[1].rows :
                <<tabla_evento[1].rows[j].file, tabla_evento[1].rows[j].line>>
                  # <<LogRows[i].file, LogRows[i].line>>

\* the number a step_no cell writes
RECURSIVE StepNumber(_)
StepNumber(digits) ==
    IF digits = <<>> THEN 0
    ELSE 10 * StepNumber(SubSeq(digits, 1, Len(digits) - 1)) + digits[Len(digits)]

\* row a must stand before row b: an earlier time_from, or the same one and
\* a smaller step number; a missing value stands last
StepsInOrder(a, b) ==
    \/ a.cells.time_from # NaT /\ b.cells.time_from = NaT
    \/ a.cells.time_from # NaT /\ a.cells.time_from < b.cells.time_from
    \/ /\ a.cells.time_from = b.cells.time_from
       /\ \/ a.cells.step_no # <<>> /\ b.cells.step_no = <<>>
          \/ /\ a.cells.step_no # <<>> /\ b.cells.step_no # <<>>
             /\ StepNumber(a.cells.step_no) < StepNumber(b.cells.step_no)

\* C7: the rows of the detail are in ascending order of time_from, then of
\* step_no as a number, with the missing values last.
C7_StepsInNumericOrder ==
    \A t \in Threads :
        Shown(t) =>
            \A i, j \in DOMAIN tabla_evento[t].rows :
                i < j => ~StepsInOrder(tabla_evento[t].rows[j], tabla_evento[t].rows[i])

-----------------------------------------------------------------------------
(* The events of a well, under SpecList *)

Listed(t) == pc[t] \in {"detail", "render"} /\ pozo_sel[t] # ""

\* the list holds the index entries of the selected well, each once
ListsTheWell(t) ==
    /\ {eventos_df[t][i] : i \in DOMAIN eventos_df[t]}
          = {e \in {index_df[t][i] : i \in DOMAIN index_df[t]} :
                e.well_legal_name = pozo_sel[t]}
    /\ \A i, j \in DOMAIN eventos_df[t] :
          eventos_df[t][i].idx_id = eventos_df[t][j].idx_id => i = j

\* a later date_ops_end never follows an earlier one, and a missing one
\* follows them all
RecentFirst(t) ==
    \A i, j \in DOMAIN eventos_df[t] :
        i < j =>
            LET a == eventos_df[t][i].date_ops_end
                b == eventos_df[t][j].date_ops_end
            IN  /\ a = NaT => b = NaT
                /\ a # NaT /\ b # NaT => a >= b

\* entries of equal date_ops_end stand in their order in the index
TiesInIndexOrder(t) ==
    \A i, j \in DOMAIN eventos_df[t] :
        i < j /\ eventos_df[t][i].date_ops_end = eventos_df[t][j].date_ops_end
            => eventos_df[t][i].idx_id < eventos_df[t][j].idx_id

\* C8 as stated: the event list of a well holds exactly the index entries of
\* the well, the latest date_ops_end first and the missing ones last, and
\* entries of equal date_ops_end keep their order in the index.
C8_RecentFirstStable ==
    \A t \in Threads :
        Listed(t) => ListsTheWell(t) /\ RecentFirst(t) /\ TiesInIndexOrder(t)

\* C8 as amended: the event list of a well holds exactly the index entries
\* of the well, the latest date_ops_end first and the missing ones last; the
\* order of entries of equal date_ops_end is not fixed.
C8_RecentFirst ==
    \A t \in Threads : Listed(t) => ListsTheWell(t) /\ RecentFirst(t)

\* the list of a well shows three events out of their index order: a later
\* end date, an earlier one and a missing one
C8_Witness ==
    /\ Listed(1)
    /\ Len(eventos_df[1]) = 3
    /\ eventos_df[1][1].date_ops_end > eventos_df[1][2].date_ops_end
    /\ eventos_df[1][2].date_ops_end # NaT
    /\ eventos_df[1][3].date_ops_end = NaT
    /\ eventos_df[1][2].idx_id > eventos_df[1][3].idx_id

====
